---------------------------- MODULE Spec2Model ----------------------------
(***************************************************************************)
(* A model of src/pipeline_final.py: the scalar normalisers (parse_mdY,    *)
(* safe_int_cast, first_mode), the dimension, product and event preparers, *)
(* and the enrichment and event joins.                                     *)
(*                                                                         *)
(* A DataFrame is a record [cols, rows]: cols is the sequence of column    *)
(* names, rows the sequence of rows, each a function from column name to   *)
(* cell.  A cell is a record [k, n, s]: k is its kind ("nan" a missing     *)
(* value NaN/None/NaT, "num" a number n, "str" a string whose characters   *)
(* are the sequence s, "ts" a timestamp of n milliseconds).  A Series is a *)
(* sequence of cells.                                                      *)
(***************************************************************************)
EXTENDS Integers, Sequences, FiniteSets, TLC

VARIABLES
    pc,              \* the step the run is at
    series,          \* safe_int_cast: the argument series
    fill_value,      \* safe_int_cast: the argument fill_value (None: NaN)
    cast_ret,        \* safe_int_cast: what it returned
    s,               \* parse_mdY: the argument
    parse_ret,       \* parse_mdY: what it returned
    categoria_raw,   \* the category table as loaded
    marca_raw,       \* the brand table as loaded
    categoria,       \* run_pipeline's categoria
    marca,           \* run_pipeline's marca
    other_cat_id,    \* the category sentinel prepare_categoria returned
    other_brand_id,  \* the brand sentinel prepare_marca returned
    categoria2,      \* prepare_categoria applied to its own output
    marca2,          \* prepare_marca applied to its own output
    other_cat_id2,   \* the sentinel of the second application
    other_brand_id2,
    producto_raw,    \* the product table as loaded
    producto,        \* run_pipeline's producto
    producto_enriq,  \* the enriched product table
    events_raw,      \* the event table as loaded
    events,          \* run_pipeline's events
    cliente,         \* run_pipeline's cliente (cleaned)
    events1,         \* events + producto
    events2,         \* events + cliente
    eventos3         \* the outer merge of both

castVars == <<series, fill_value, cast_ret>>
parseVars == <<s, parse_ret>>
dimVars == <<categoria_raw, marca_raw, categoria, marca, other_cat_id, other_brand_id>>
dim2Vars == <<categoria2, marca2, other_cat_id2, other_brand_id2>>
prodVars == <<producto_raw, producto>>
enrichVars == <<producto_enriq>>
eventVars == <<events_raw, events>>
joinVars == <<cliente, events1, events2, eventos3>>

vars == <<pc, castVars, parseVars, dimVars, dim2Vars, prodVars, enrichVars, eventVars, joinVars>>

-----------------------------------------------------------------------------
(* Cells *)

NaN == [k |-> "nan", n |-> 0, s |-> <<>>]
Num(x) == [k |-> "num", n |-> x, s |-> <<>>]
Str(cs) == [k |-> "str", n |-> 0, s |-> cs]

isna(c) == c.k = "nan"
notna(c) == c.k # "nan"

Digits == <<"0", "1", "2", "3", "4", "5", "6", "7", "8", "9">>

DigitSet == {Digits[i] : i \in 1..10}
DigitMap == [ch \in DigitSet |-> (CHOOSE i \in 1..10 : Digits[i] = ch) - 1]

IsDigit(ch) == ch \in DigitSet

DigitVal(ch) == DigitMap[ch]

\* int("...") of a non-empty sequence of decimal digits
RECURSIVE IntOf(_)
IntOf(cs) ==
    IF cs = <<>> THEN 0
    ELSE 10 * IntOf(SubSeq(cs, 1, Len(cs) - 1)) + DigitVal(cs[Len(cs)])

AllDigits(cs) == cs # <<>> /\ \A i \in 1..Len(cs) : IsDigit(cs[i])

\* pd.to_numeric(x, errors="coerce") of one cell: a number stays, a string of
\* digits is read as that number, every other string and a missing value is NaN.
to_numeric_coerce(c) ==
    CASE c.k = "num" -> c
      [] c.k = "str" /\ AllDigits(c.s) -> Num(IntOf(c.s))
      [] OTHER -> NaN

fillna(c, v) == IF isna(c) THEN v ELSE c

-----------------------------------------------------------------------------
(* Strings: str.strip(), str.upper(), astype(str) *)

IsSpace(ch) == ch \in {" ", "\t", "\n", "\r"}

LowerCase == <<"a", "b", "c", "d", "e", "f", "g", "h", "i", "j", "k", "l", "m",
               "n", "o", "p", "q", "r", "s", "t", "u", "v", "w", "x", "y", "z">>
UpperCase == <<"A", "B", "C", "D", "E", "F", "G", "H", "I", "J", "K", "L", "M",
               "N", "O", "P", "Q", "R", "S", "T", "U", "V", "W", "X", "Y", "Z">>

LowerSet == {LowerCase[i] : i \in 1..26}
UpperMap == [ch \in LowerSet |-> UpperCase[CHOOSE i \in 1..26 : LowerCase[i] = ch]]

UpperChar(ch) == IF ch \in LowerSet THEN UpperMap[ch] ELSE ch

Upper(cs) == [i \in 1..Len(cs) |-> UpperChar(cs[i])]

\* the length of the longest prefix of cs made of whitespace
RECURSIVE LeadSpace(_)
LeadSpace(cs) ==
    IF cs # <<>> /\ IsSpace(cs[1]) THEN 1 + LeadSpace(Tail(cs)) ELSE 0

RECURSIVE TrailSpace(_)
TrailSpace(cs) ==
    IF cs # <<>> /\ IsSpace(cs[Len(cs)])
    THEN 1 + TrailSpace(SubSeq(cs, 1, Len(cs) - 1))
    ELSE 0

Strip(cs) ==
    IF LeadSpace(cs) = Len(cs) THEN <<>>
    ELSE SubSeq(cs, LeadSpace(cs) + 1, Len(cs) - TrailSpace(cs))

\* str(n) of an integer
RECURSIVE NatStr(_)
NatStr(n) == IF n < 10 THEN <<Digits[n + 1]>> ELSE Append(NatStr(n \div 10), Digits[(n % 10) + 1])
IntStr(n) == IF n < 0 THEN <<"-">> \o NatStr(-n) ELSE NatStr(n)

\* Series.astype(str) of one cell: a missing value becomes the text "nan"
astype_str(c) ==
    CASE c.k = "str" -> c
      [] c.k = "num" -> Str(IntStr(c.n))
      [] OTHER -> Str(<<"n", "a", "n">>)

str_strip(c) == Str(Strip(c.s))
str_upper(c) == Str(Upper(c.s))

SeriesMap(Op(_), xs) == [i \in 1..Len(xs) |-> Op(xs[i])]

any_isna(xs) == \E i \in 1..Len(xs) : isna(xs[i])

-----------------------------------------------------------------------------
(* safe_int_cast *)

\* safe_int_cast with the 0-fallback applied before the fill value
safe_int_cast_ZeroFirst(ser, fv) ==
    LET s1 == SeriesMap(to_numeric_coerce, ser)
        s2 == [i \in 1..Len(s1) |-> fillna(s1[i], Num(0))]
    IN  IF notna(fv) THEN [i \in 1..Len(s2) |-> fillna(s2[i], fv)] ELSE s2

safe_int_cast(ser, fv) ==
    LET s1 == SeriesMap(to_numeric_coerce, ser)
        s2 == IF notna(fv) THEN [i \in 1..Len(s1) |-> fillna(s1[i], fv)] ELSE s1
    IN  IF any_isna(s2)
        THEN \* astype("Int64") keeps the missing entries missing, so the
             \* early return is not taken: fillna(0).astype(int)
             [i \in 1..Len(s2) |-> fillna(s2[i], Num(0))]
        ELSE s2

MaxSeries == 3

CastCells == {NaN, Num(0), Num(1), Num(7), Str(<<"7">>), Str(<<"1", "0">>), Str(<<"x">>), Str(<<>>)}

CastFills == {NaN, Num(0), Num(5)}

\* the element of a set of one element: in Only({e(x) : x \in {v}}) the value v
\* is computed once and e reads it as x
Only(S) == CHOOSE x \in S : TRUE

SeqsUpTo(S, n) == UNION {[1..m -> S] : m \in 0..n}

NoTable == [cols |-> <<>>, rows |-> <<>>]

IdleCast == series = <<>> /\ fill_value = NaN /\ cast_ret = <<>>
IdleParse == s = NaN /\ parse_ret = [k |-> "nat", y |-> 0, m |-> 0, d |-> 0]
IdleDim ==
    /\ categoria_raw = NoTable /\ marca_raw = NoTable
    /\ categoria = NoTable /\ marca = NoTable
    /\ other_cat_id = 0 /\ other_brand_id = 0
IdleDim2 ==
    /\ categoria2 = NoTable /\ marca2 = NoTable
    /\ other_cat_id2 = 0 /\ other_brand_id2 = 0
IdleProd == producto_raw = NoTable /\ producto = NoTable
IdleEnrich == producto_enriq = NoTable
IdleEvents == events_raw = NoTable /\ events = NoTable
IdleJoin == cliente = NoTable /\ events1 = NoTable /\ events2 = NoTable /\ eventos3 = NoTable

InitCast ==
    /\ pc = "cast_call"
    /\ series \in SeqsUpTo(CastCells, MaxSeries)
    /\ fill_value \in CastFills
    /\ cast_ret = <<>>
    /\ IdleParse /\ IdleDim /\ IdleDim2 /\ IdleProd /\ IdleEnrich /\ IdleEvents /\ IdleJoin

CallSafeIntCast ==
    /\ pc = "cast_call"
    /\ cast_ret' = safe_int_cast(series, fill_value)
    /\ pc' = "cast_done"
    /\ UNCHANGED <<series, fill_value, parseVars, dimVars, dim2Vars, prodVars, enrichVars, eventVars, joinVars>>

NextCast == CallSafeIntCast

SpecCast == InitCast /\ [][NextCast]_vars

\* C9: safe_int_cast returns one entry per input entry and none is missing; an
\* entry that is missing or not numeric becomes the fill value when one is
\* given and 0 when none is; an integer entry is returned unchanged.
C9_SafeIntCast ==
    pc = "cast_done" =>
        /\ Len(cast_ret) = Len(series)
        /\ \A i \in 1..Len(series) :
              /\ cast_ret[i].k = "num"
              /\ series[i].k = "num" => cast_ret[i] = series[i]
              /\ (series[i].k = "nan" \/ (series[i].k = "str" /\ ~AllDigits(series[i].s)))
                    => cast_ret[i] = (IF fill_value.k = "num" THEN fill_value ELSE Num(0))

\* a cast with a fill value other than 0 met a missing entry, a string that is
\* no number and an integer
C9_Witness ==
    /\ pc = "cast_done"
    /\ fill_value = Num(5)
    /\ series = <<NaN, Str(<<"x">>), Num(7)>>
    /\ cast_ret = <<Num(5), Num(5), Num(7)>>

\* a cast without fill value fell back to 0
C9_WitnessNoFill ==
    /\ pc = "cast_done"
    /\ fill_value = NaN
    /\ series = <<NaN, NaN>>
    /\ cast_ret = <<Num(0), Num(0)>>

-----------------------------------------------------------------------------
(* parse_mdY *)

pivot == 30

NaT == [k |-> "nat", y |-> 0, m |-> 0, d |-> 0]
Timestamp(yy, mm, dd) == [k |-> "date", y |-> yy, m |-> mm, d |-> dd]

AllSpace(cs) == \A i \in 1..Len(cs) : IsSpace(cs[i])

Rest(cs, i) == SubSeq(cs, i, Len(cs))

\* whether t is mm/dd/yy with la, lb and lc digits, then only whitespace
Fits(t, la, lb, lc) ==
    /\ Len(t) >= la + lb + lc + 2
    /\ AllDigits(SubSeq(t, 1, la))
    /\ t[la + 1] = "/"
    /\ AllDigits(SubSeq(t, la + 2, la + 1 + lb))
    /\ t[la + lb + 2] = "/"
    /\ AllDigits(SubSeq(t, la + lb + 3, la + lb + 2 + lc))
    /\ AllSpace(Rest(t, la + lb + lc + 3))

\* re.match(r"\s*(\d{1,2})/(\d{1,2})/(\d{2,4})\s*$", cs): the set of the
\* group triples <<mm, dd, yy>> the pattern matches with (empty: no match)
re_match(cs) ==
    LET t == Rest(cs, LeadSpace(cs) + 1)
    IN  { <<SubSeq(t, 1, w[1]), SubSeq(t, w[1] + 2, w[1] + 1 + w[2]),
            SubSeq(t, w[1] + w[2] + 3, w[1] + w[2] + 2 + w[3])>> :
            w \in { x \in (1..2) \X (1..2) \X (2..4) : Fits(t, x[1], x[2], x[3]) } }

IsLeap(y) == (y % 4 = 0 /\ y % 100 # 0) \/ y % 400 = 0

DaysInMonth(y, m) ==
    IF m = 2 THEN (IF IsLeap(y) THEN 29 ELSE 28)
    ELSE IF m \in {4, 6, 9, 11} THEN 30 ELSE 31

\* pd.Timestamp(year=, month=, day=) returns: the date exists and lies in the
\* range a Timestamp holds (1677-09-22 to 2262-04-11); otherwise it raises
TimestampOk(y, m, d) ==
    /\ m \in 1..12
    /\ d \in 1..DaysInMonth(y, m)
    /\ y > 1677 \/ (y = 1677 /\ (m > 9 \/ (m = 9 /\ d >= 22)))
    /\ y < 2262 \/ (y = 2262 /\ (m < 4 \/ (m = 4 /\ d <= 11)))

\* the pivot year itself counted among the 2000s
ResolveYear_PivotIncluded(yy) ==
    IF yy < 100 THEN (IF yy <= pivot THEN 2000 + yy ELSE 1900 + yy) ELSE yy

ResolveYear(yy) == IF yy < 100 THEN (IF yy < pivot THEN 2000 + yy ELSE 1900 + yy) ELSE yy

parse_mdY(c) ==
    IF isna(c) THEN NaT
    ELSE LET ms == re_match(c.s)
         IN  IF ms = {} THEN NaT
             ELSE LET g == CHOOSE x \in ms : TRUE
                      mm == IntOf(g[1])
                      dd == IntOf(g[2])
                      yy == ResolveYear(IntOf(g[3]))
                  IN  IF TimestampOk(yy, mm, dd) THEN Timestamp(yy, mm, dd) ELSE NaT

MaxLen == 7

Alphabet == {"0", "2", "3", "/", " ", "x"}

InitParse ==
    /\ pc = "parse_call"
    /\ s \in {NaN} \cup {Str(cs) : cs \in SeqsUpTo(Alphabet, MaxLen)}
    /\ parse_ret = NaT
    /\ IdleCast /\ IdleDim /\ IdleDim2 /\ IdleProd /\ IdleEnrich /\ IdleEvents /\ IdleJoin

CallParseMdY ==
    /\ pc = "parse_call"
    /\ parse_ret' = parse_mdY(s)
    /\ pc' = "parse_done"
    /\ UNCHANGED <<s, castVars, dimVars, dim2Vars, prodVars, enrichVars, eventVars, joinVars>>

NextParse == CallParseMdY

SpecParse == InitParse /\ [][NextParse]_vars

\* the digit groups of a trimmed text of the form m/d/y, <<>> when it has
\* another form: exactly two "/", one or two digits before the first, one or
\* two between them, two to four after the second
MdyParts(cs) ==
    LET t == Strip(cs)
        P == {i \in 1..Len(t) : t[i] = "/"}
    IN  IF Cardinality(P) # 2 THEN <<>>
        ELSE LET i == CHOOSE x \in P : \A y \in P : x <= y
                 j == CHOOSE x \in P : \A y \in P : x >= y
                 a == SubSeq(t, 1, i - 1)
                 b == SubSeq(t, i + 1, j - 1)
                 c == SubSeq(t, j + 1, Len(t))
             IN  IF /\ AllDigits(a) /\ Len(a) <= 2
                    /\ AllDigits(b) /\ Len(b) <= 2
                    /\ AllDigits(c) /\ Len(c) >= 2 /\ Len(c) <= 4
                 THEN <<a, b, c>>
                 ELSE <<>>

\* C8: parse_mdY with pivot 30 returns no date for a missing input, for a text
\* that is not m/d/y once trimmed, and for a month or day that does not exist;
\* for an existing date with a two-digit year yy it returns that month and
\* day in the year 2000+yy when yy < 30 and 1900+yy when yy >= 30.
C8_ParseMdY ==
    pc = "parse_done" =>
        IF isna(s) THEN parse_ret = NaT
        ELSE LET g == MdyParts(s.s)
             IN  IF g = <<>> THEN parse_ret = NaT
                 ELSE LET mm == IntOf(g[1])
                          dd == IntOf(g[2])
                          yy == IntOf(g[3])
                      IN  /\ (mm \notin 1..12 \/ dd \notin 1..DaysInMonth(yy, mm))
                                => parse_ret = NaT
                          /\ (Len(g[3]) = 2 /\ mm \in 1..12 /\ dd \in 1..DaysInMonth(yy, mm))
                                => parse_ret = [k |-> "date",
                                                y |-> IF yy < 30 THEN 2000 + yy ELSE 1900 + yy,
                                                m |-> mm, d |-> dd]

\* " 2/3/30" was parsed to 1930-02-03: surrounding whitespace, the year at the pivot
C8_Witness ==
    /\ pc = "parse_done"
    /\ s = Str(<<" ", "2", "/", "3", "/", "3", "0">>)
    /\ parse_ret = [k |-> "date", y |-> 1930, m |-> 2, d |-> 3]

\* "2/30/22" matched the pattern and is no date (February has no 30th)
C8_WitnessNoDate ==
    /\ pc = "parse_done"
    /\ s = Str(<<"2", "/", "3", "0", "/", "2", "2">>)
    /\ parse_ret = NaT

-----------------------------------------------------------------------------
(* DataFrames *)

Col(t, c) == [i \in 1..Len(t.rows) |-> t.rows[i][c]]

HasCol(t, c) == \E i \in 1..Len(t.cols) : t.cols[i] = c

\* df[c] = ser: the column is replaced, or added as the last one
SetCol(t, c, ser) ==
    [cols |-> IF HasCol(t, c) THEN t.cols ELSE Append(t.cols, c),
     rows |-> [i \in 1..Len(t.rows) |->
                 [x \in (DOMAIN t.rows[i]) \cup {c} |->
                     IF x = c THEN ser[i] ELSE t.rows[i][x]]]]

\* the rows of t that pass Keep
FilterRows(t, Keep(_)) == [cols |-> t.cols, rows |-> SelectSeq(t.rows, Keep)]

SameOn(r1, r2, cols) == \A c \in cols : r1[c] = r2[c]

RECURSIVE DedupRows(_, _)
DedupRows(rows, cols) ==
    IF rows = <<>> THEN <<>>
    ELSE LET init == DedupRows(SubSeq(rows, 1, Len(rows) - 1), cols)
             last == rows[Len(rows)]
         IN  IF \E j \in 1..Len(init) : SameOn(init[j], last, cols)
             THEN init
             ELSE Append(init, last)

\* df.drop_duplicates(subset=cols): a row equal on cols to an earlier row goes
drop_duplicates(t, cols) == [cols |-> t.cols, rows |-> DedupRows(t.rows, cols)]

ColSet(t) == {t.cols[i] : i \in 1..Len(t.cols)}

-----------------------------------------------------------------------------
(* prepare_categoria, prepare_marca: the same text, over the label column *)
(* "categoria" and "marca"                                                 *)

OtherLabel == <<"O", "T", "H", "E", "R">>
NAN == <<"N", "A", "N">>

\* df[label].astype(str).str.strip().str.upper()
str_strip_upper(c) == str_upper(str_strip(astype_str(c)))

\* id missing and the label empty once "NAN" is replaced by ""
mask_empty(row, label) ==
    /\ isna(row["id"])
    /\ Strip(IF row[label].s = NAN THEN <<>> ELSE row[label].s) = <<>>

\* the table after the label is normalised, the empty rows are dropped and the
\* duplicates of an (id, label) pair are dropped
dim_clean(t, label) ==
    Only({ drop_duplicates(t2, {"id", label}) :
             t2 \in { FilterRows(t1, LAMBDA row : ~mask_empty(row, label)) :
                        t1 \in {SetCol(t, label, SeriesMap(str_strip_upper, Col(t, label)))} } })

\* a mutant's answer: an OTHER row is never found
has_other_Never(t, label) == FALSE

\* (df[label] == "OTHER").any()
has_other(t, label) == \E i \in 1..Len(t.rows) : t.rows[i][label] = Str(OtherLabel)

\* the ids of the OTHER rows, in order
other_ids(t, label) ==
    Col(FilterRows(t, LAMBDA row : row[label] = Str(OtherLabel)), "id")

\* int(pd.to_numeric(ids of the OTHER rows).iloc[0]) raises: to_numeric (errors
\* not coerced) on a text that is no number, int() on a missing first id
existing_other_id_raises(t, label) ==
    LET ids == other_ids(t, label)
    IN  \/ \E i \in 1..Len(ids) : ids[i].k = "str" /\ ~AllDigits(ids[i].s)
        \/ isna(ids[1])

existing_other_id(t, label) == to_numeric_coerce(other_ids(t, label)[1]).n

SetMax(S) == CHOOSE x \in S : \A y \in S : y <= x

\* a mutant's answer: the greatest id itself
new_other_id_NoIncrement(t) ==
    LET ids == SeriesMap(to_numeric_coerce, Col(t, "id"))
        nums == {ids[i].n : i \in {j \in 1..Len(ids) : notna(ids[j])}}
    IN  IF nums # {} THEN SetMax(nums) ELSE 0

\* the greatest numeric id, or 0 when there is none, plus one
new_other_id(t) ==
    LET ids == SeriesMap(to_numeric_coerce, Col(t, "id"))
        nums == {ids[i].n : i \in {j \in 1..Len(ids) : notna(ids[j])}}
        max_id == IF nums # {} THEN SetMax(nums) ELSE 0
    IN  max_id + 1

prepare_dim_raises(t, label) ==
    \E c \in {dim_clean(t, label)} :
        has_other(c, label) /\ existing_other_id_raises(c, label)

\* the table c with an OTHER row (appended when it has none), and the sentinel id
ensure_other(c, label) ==
    IF has_other(c, label) THEN <<c, existing_other_id(c, label)>>
    ELSE Only({ <<[cols |-> c.cols,
                   rows |-> Append(c.rows,
                              [x \in ColSet(c) |->
                                  IF x = "id" THEN Num(other_id)
                                  ELSE IF x = label THEN Str(OtherLabel) ELSE NaN])],
                  other_id>> : other_id \in {new_other_id(c)} })

\* df["id"] = safe_int_cast(pd.to_numeric(df["id"], errors="coerce"), fill_value=other_id)
cast_ids(c, other_id) ==
    SetCol(c, "id", safe_int_cast(SeriesMap(to_numeric_coerce, Col(c, "id")), Num(other_id)))

\* <<the cleaned table, the sentinel id>>
prepare_dim(t, label) ==
    Only({ <<cast_ids(r[1], r[2]), r[2]>> :
             r \in { ensure_other(c, label) : c \in {dim_clean(t, label)} } })

prepare_categoria_raises(t) == prepare_dim_raises(t, "categoria")
prepare_categoria(t) == prepare_dim(t, "categoria")
prepare_marca_raises(t) == prepare_dim_raises(t, "marca")
prepare_marca(t) == prepare_dim(t, "marca")

MaxDimRows == 3

DimIds == {NaN, Num(1), Num(2), Str(<<"x">>)}
DimLabels == {NaN, Str(OtherLabel), Str(<<" ", "o", "t", "h", "e", "r">>),
              Str(<<"a">>), Str(<<"A", " ">>)}

DimTable(label, ids, labels, n) ==
    {[cols |-> <<"id", label>>, rows |-> rs] :
        rs \in SeqsUpTo({[x \in {"id", label} |-> IF x = "id" THEN i ELSE l] :
                            i \in ids, l \in labels}, n)}

Reverse(xs) == [i \in 1..Len(xs) |-> xs[Len(xs) + 1 - i]]

\* the same rows under the other label column, last row first
AsMarca(t) ==
    [cols |-> <<"id", "marca">>,
     rows |-> Reverse([i \in 1..Len(t.rows) |->
                 [x \in {"id", "marca"} |->
                     IF x = "id" THEN t.rows[i]["id"] ELSE t.rows[i]["categoria"]]])]

InitDim ==
    /\ pc = "load"
    /\ categoria_raw \in DimTable("categoria", DimIds, DimLabels, MaxDimRows)
    /\ marca_raw = AsMarca(categoria_raw)
    /\ categoria = categoria_raw
    /\ marca = marca_raw
    /\ other_cat_id = 0 /\ other_brand_id = 0
    /\ IdleCast /\ IdleParse /\ IdleDim2 /\ IdleProd /\ IdleEnrich /\ IdleEvents /\ IdleJoin

\* categoria, other_cat_id = prepare_categoria(categoria)
PrepareCategoria ==
    /\ pc = "load"
    /\ IF prepare_categoria_raises(categoria)
       THEN pc' = "raised" /\ UNCHANGED <<categoria, other_cat_id>>
       ELSE \E r \in {prepare_categoria(categoria)} :
                /\ categoria' = r[1]
                /\ other_cat_id' = r[2]
                /\ pc' = "categoria_done"
    /\ UNCHANGED <<categoria_raw, marca_raw, marca, other_brand_id>>
    /\ UNCHANGED <<castVars, parseVars, dim2Vars, prodVars, enrichVars, eventVars, joinVars>>

\* marca, other_brand_id = prepare_marca(marca)
PrepareMarca ==
    /\ pc = "categoria_done"
    /\ IF prepare_marca_raises(marca)
       THEN pc' = "raised" /\ UNCHANGED <<marca, other_brand_id>>
       ELSE \E r \in {prepare_marca(marca)} :
                /\ marca' = r[1]
                /\ other_brand_id' = r[2]
                /\ pc' = "marca_done"
    /\ UNCHANGED <<categoria_raw, marca_raw, categoria, other_cat_id>>
    /\ UNCHANGED <<castVars, parseVars, dim2Vars, prodVars, enrichVars, eventVars, joinVars>>

\* the two preparers applied to their own output
PrepareAgain ==
    /\ pc = "marca_done"
    /\ ~prepare_categoria_raises(categoria) /\ ~prepare_marca_raises(marca)
    /\ \E c \in {prepare_categoria(categoria)}, m \in {prepare_marca(marca)} :
           /\ categoria2' = c[1]
           /\ other_cat_id2' = c[2]
           /\ marca2' = m[1]
           /\ other_brand_id2' = m[2]
    /\ pc' = "again_done"
    /\ UNCHANGED <<castVars, parseVars, dimVars, prodVars, enrichVars, eventVars, joinVars>>

NextDim == PrepareCategoria \/ PrepareMarca \/ PrepareAgain

SpecDim == InitDim /\ [][NextDim]_vars

Returned(stages) == pc \in stages

CatReturned == Returned({"categoria_done", "marca_done", "again_done"})
MarcaReturned == Returned({"marca_done", "again_done"})

OtherIdx(t, label) == {i \in 1..Len(t.rows) : t.rows[i][label] = Str(OtherLabel)}

\* exactly one row is labelled OTHER, its id is sid, and no other row has id sid
ExactlyOneOther(t, label, sid) ==
    \E i \in 1..Len(t.rows) :
        /\ t.rows[i][label] = Str(OtherLabel)
        /\ t.rows[i]["id"] = Num(sid)
        /\ \A j \in 1..Len(t.rows) :
              j # i => t.rows[j][label] # Str(OtherLabel) /\ t.rows[j]["id"] # Num(sid)

\* some row is labelled OTHER and sid is the id of the first such row
FirstOtherIs(t, label, sid) ==
    /\ OtherIdx(t, label) # {}
    /\ \E i \in OtherIdx(t, label) :
          /\ \A j \in OtherIdx(t, label) : i <= j
          /\ t.rows[i]["id"] = Num(sid)

\* a raw table whose ids are all numbers, no two rows sharing one, and with at
\* most one row whose label reads OTHER once trimmed and uppercased
WellKeyed(raw, label) ==
    /\ \A i \in 1..Len(raw.rows) : raw.rows[i]["id"].k = "num"
    /\ \A i, j \in 1..Len(raw.rows) : i # j => raw.rows[i]["id"] # raw.rows[j]["id"]
    /\ Cardinality({i \in 1..Len(raw.rows) :
                       raw.rows[i][label].k = "str"
                       /\ Upper(Strip(raw.rows[i][label].s)) = OtherLabel}) <= 1

\* C1 as stated: after either preparer returns, for every input table, exactly
\* one row is labelled OTHER, the sentinel is its id, and no other row has it.
C1_AsStated ==
    /\ CatReturned => ExactlyOneOther(categoria, "categoria", other_cat_id)
    /\ MarcaReturned => ExactlyOneOther(marca, "marca", other_brand_id)

\* C1 amended: after either preparer returns, at least one row is labelled
\* OTHER and the sentinel is the id of the first such row; exactly one row is
\* labelled OTHER, with an id no other row has, when the input's ids are all
\* numbers, no two input rows share an id and at most one input row's
\* normalised label is OTHER.
C1_Sentinel ==
    /\ CatReturned =>
          /\ FirstOtherIs(categoria, "categoria", other_cat_id)
          /\ WellKeyed(categoria_raw, "categoria")
                => ExactlyOneOther(categoria, "categoria", other_cat_id)
    /\ MarcaReturned =>
          /\ FirstOtherIs(marca, "marca", other_brand_id)
          /\ WellKeyed(marca_raw, "marca")
                => ExactlyOneOther(marca, "marca", other_brand_id)

\* both preparers returned on a well-keyed table of two rows without an OTHER
\* row, and appended the one OTHER row
C1_Witness ==
    /\ pc = "marca_done"
    /\ WellKeyed(categoria_raw, "categoria")
    /\ Len(categoria_raw.rows) = 2
    /\ Len(categoria.rows) = 3 /\ Len(marca.rows) = 3
    /\ ExactlyOneOther(categoria, "categoria", other_cat_id)
    /\ ExactlyOneOther(marca, "marca", other_brand_id)

RowSet(t) == {t.rows[i] : i \in 1..Len(t.rows)}

NoRepeatedRow(t) == \A i, j \in 1..Len(t.rows) : i # j => t.rows[i] # t.rows[j]

FirstAt(t, r) == CHOOSE i \in 1..Len(t.rows) : t.rows[i] = r /\ \A j \in 1..(i - 1) : t.rows[j] # r

\* u is t without the rows that repeat an earlier row of t
SameButRepeats(t, u) ==
    /\ u.cols = t.cols
    /\ RowSet(u) = RowSet(t)
    /\ NoRepeatedRow(u)
    /\ \A i, j \in 1..Len(u.rows) : i < j => FirstAt(t, u.rows[i]) < FirstAt(t, u.rows[j])

\* C4 as stated: applying a preparer to its own output returns the same rows,
\* the same ids and the same sentinel id.
C4_AsStated ==
    pc = "again_done" =>
        /\ categoria2 = categoria /\ other_cat_id2 = other_cat_id
        /\ marca2 = marca /\ other_brand_id2 = other_brand_id

\* C4 amended: applying a preparer to its own output returns the same sentinel
\* id and adds no OTHER row; it returns the rows of the first output without
\* those that repeat an earlier row, hence the same table when the first
\* output has no repeated row.
C4_Idempotent ==
    pc = "again_done" =>
        /\ other_cat_id2 = other_cat_id
        /\ other_brand_id2 = other_brand_id
        /\ SameButRepeats(categoria, categoria2)
        /\ SameButRepeats(marca, marca2)
        /\ Cardinality(OtherIdx(categoria2, "categoria")) <= Cardinality(OtherIdx(categoria, "categoria"))
        /\ Cardinality(OtherIdx(marca2, "marca")) <= Cardinality(OtherIdx(marca, "marca"))
        /\ NoRepeatedRow(categoria) => categoria2 = categoria
        /\ NoRepeatedRow(marca) => marca2 = marca

\* a preparer was applied to an output with a repeated row (a missing id
\* filled with the sentinel id) and dropped it
C4_Witness ==
    /\ pc = "again_done"
    /\ ~NoRepeatedRow(categoria)
    /\ Len(categoria2.rows) < Len(categoria.rows)
    /\ other_cat_id2 = other_cat_id

\* a preparer was applied to an output of three distinct rows, one of them an
\* OTHER row it had appended, and returned it unchanged
C4_WitnessSame ==
    /\ pc = "again_done"
    /\ Len(categoria_raw.rows) = 2
    /\ Len(categoria.rows) = 3
    /\ NoRepeatedRow(categoria)
    /\ categoria2 = categoria

-----------------------------------------------------------------------------
(* first_mode, group_mode_transform, the group medians *)

\* the numbers of the cells of xs that are not missing, as a sequence
NumsOf(xs) == SeriesMap(LAMBDA c : c.n, SelectSeq(xs, notna))

RECURSIVE Insert(_, _)
Insert(sorted, x) ==
    IF sorted = <<>> THEN <<x>>
    ELSE IF x <= sorted[1] THEN <<x>> \o sorted
    ELSE <<sorted[1]>> \o Insert(Tail(sorted), x)

RECURSIVE Sort(_)
Sort(ns) == IF ns = <<>> THEN <<>> ELSE Insert(Sort(Tail(ns)), ns[1])

\* Series.median(): missing values are skipped; the middle value, or the mean
\* of the two middle values; NaN when nothing is left.  Prices are held in
\* eighths, which keeps the means the cascade takes whole numbers.
Median(xs) ==
    Only({ IF ns = <<>> THEN NaN
           ELSE IF Len(ns) % 2 = 1 THEN Num(ns[(Len(ns) + 1) \div 2])
           ELSE Num((ns[Len(ns) \div 2] + ns[Len(ns) \div 2 + 1]) \div 2) :
           ns \in {Sort(NumsOf(xs))} })

Count(ns, x) == Cardinality({i \in 1..Len(ns) : ns[i] = x})

\* first_mode: Series.mode(dropna=True) lists the most frequent values in
\* increasing order; its first entry, or NaN when there is no value
first_mode(xs) ==
    Only({ IF ns = <<>> THEN NaN
           ELSE Num(CHOOSE x \in {ns[i] : i \in 1..Len(ns)} :
                      \A y \in {ns[i] : i \in 1..Len(ns)} :
                          \/ Count(ns, y) < Count(ns, x)
                          \/ (Count(ns, y) = Count(ns, x) /\ x <= y)) :
           ns \in {NumsOf(xs)} })

\* the values of column target in the rows of the group of row r: groupby
\* drops the rows with a missing key, which belong to no group
GroupOf(t, by_cols, target, r) ==
    Col(FilterRows(t, LAMBDA q : SameOn(q, r, by_cols)), target)

HasNaKey(r, by_cols) == \E c \in by_cols : isna(r[c])

\* df.groupby(by_cols)[target].transform("median")
group_median_transform(t, by_cols, target) ==
    [i \in 1..Len(t.rows) |->
        IF HasNaKey(t.rows[i], by_cols) THEN NaN
        ELSE Median(GroupOf(t, by_cols, target, t.rows[i]))]

\* df.groupby(by_cols)[target_col].transform(lambda s: first_mode(s))
group_mode_transform(t, by_cols, target_col) ==
    [i \in 1..Len(t.rows) |->
        IF HasNaKey(t.rows[i], by_cols) THEN NaN
        ELSE first_mode(GroupOf(t, by_cols, target_col, t.rows[i]))]

-----------------------------------------------------------------------------
(* prepare_producto *)

AllCols(t) == ColSet(t)

MapCol(t, c, Op(_)) == SetCol(t, c, SeriesMap(Op, Col(t, c)))

Fill(xs, ys) == [i \in 1..Len(xs) |-> fillna(xs[i], ys[i])]

\* drop_duplicates(), the four columns made numeric, and the rows with a
\* missing categoria_id and a volumen of 0 (or missing) dropped
producto_rows(t) ==
    Only({ FilterRows(t2, LAMBDA r : ~(isna(r["categoria_id"])
                                        /\ fillna(r["volumen"], Num(0)) = Num(0))) :
             t2 \in { MapCol(MapCol(MapCol(MapCol(t1, "categoria_id", to_numeric_coerce),
                                    "marca_id", to_numeric_coerce),
                             "volumen", to_numeric_coerce),
                      "precio", to_numeric_coerce) :
                      t1 \in {drop_duplicates(t, AllCols(t))} } })

\* a mutant's answer: the cascade without its last step, the global median
impute_precio_NoGlobal(t) ==
    Only({ SetCol(b, "precio",
                  Fill(Col(b, "precio"), group_median_transform(b, {"volumen"}, "precio"))) :
             b \in { MapCol(a, "precio", LAMBDA c : IF c = Num(0) THEN NaN ELSE c) :
                     a \in { SetCol(t, "precio",
                                Fill(Col(t, "precio"),
                                     group_median_transform(t, {"categoria_id", "volumen"}, "precio"))) } } })

\* the price cascade: the median of the (categoria_id, volumen) group, 0 made
\* missing, the median of the volumen group, the median of all rows
impute_precio(t) ==
    Only({ MapCol(c, "precio", LAMBDA x : fillna(x, Median(Col(c, "precio")))) :
             c \in { SetCol(b, "precio",
                        Fill(Col(b, "precio"), group_median_transform(b, {"volumen"}, "precio"))) :
                     b \in { MapCol(a, "precio", LAMBDA x : IF x = Num(0) THEN NaN ELSE x) :
                             a \in { SetCol(t, "precio",
                                        Fill(Col(t, "precio"),
                                             group_median_transform(t, {"categoria_id", "volumen"}, "precio"))) } } } })

\* a mutant's answer: only marca_id is set on the rows that miss both
assign_both_na_MarcaOnly(t, brand_id, cat_id) ==
    [cols |-> t.cols,
     rows |-> [i \in 1..Len(t.rows) |->
                 IF isna(t.rows[i]["marca_id"]) /\ isna(t.rows[i]["categoria_id"])
                 THEN [t.rows[i] EXCEPT !["marca_id"] = Num(brand_id)]
                 ELSE t.rows[i]]]

\* producto.loc[mask_both_na, ["marca_id", "categoria_id"]] = [other_brand_id, other_cat_id]
assign_both_na(t, brand_id, cat_id) ==
    [cols |-> t.cols,
     rows |-> [i \in 1..Len(t.rows) |->
                 IF isna(t.rows[i]["marca_id"]) /\ isna(t.rows[i]["categoria_id"])
                 THEN [t.rows[i] EXCEPT !["marca_id"] = Num(brand_id),
                                        !["categoria_id"] = Num(cat_id)]
                 ELSE t.rows[i]]]

\* categoria_id, where missing, from the mode of the (marca_id, volumen)
\* group, and from the sentinel where still missing
infer_categoria(t, cat_id) ==
    Only({ SetCol(t, "categoria_id",
                  [i \in 1..Len(t.rows) |->
                      fillna(IF notna(t.rows[i]["categoria_id"])
                             THEN t.rows[i]["categoria_id"]
                             ELSE modes[i],
                             Num(cat_id))]) :
             modes \in {group_mode_transform(t, {"marca_id", "volumen"}, "categoria_id")} })

\* a mutant's answer: the casts without their fill values
final_casts_NoFill(t, brand_id, cat_id) ==
    MapCol(
        SetCol(
            SetCol(
                SetCol(t, "id",
                       safe_int_cast(SeriesMap(to_numeric_coerce, Col(t, "id")), NaN)),
                "categoria_id",
                safe_int_cast(SeriesMap(to_numeric_coerce, Col(t, "categoria_id")), NaN)),
            "marca_id",
            safe_int_cast(SeriesMap(to_numeric_coerce, Col(t, "marca_id")), NaN)),
        "nombre", str_strip_upper)

\* the casts of id, categoria_id and marca_id, and nombre trimmed and uppercased
final_casts(t, brand_id, cat_id) ==
    MapCol(
        SetCol(
            SetCol(
                SetCol(t, "id",
                       safe_int_cast(SeriesMap(to_numeric_coerce, Col(t, "id")), NaN)),
                "categoria_id",
                safe_int_cast(SeriesMap(to_numeric_coerce, Col(t, "categoria_id")), Num(cat_id))),
            "marca_id",
            safe_int_cast(SeriesMap(to_numeric_coerce, Col(t, "marca_id")), Num(brand_id))),
        "nombre", str_strip_upper)

prepare_producto(t, brand_id, cat_id) ==
    Only({ final_casts(d, brand_id, cat_id) :
             d \in { infer_categoria(c, cat_id) :
                     c \in { assign_both_na(b, brand_id, cat_id) :
                             b \in { impute_precio(a) : a \in {producto_rows(t)} } } } })

MaxProdRows == 3

ProdCols == <<"id", "nombre", "categoria_id", "marca_id", "volumen", "precio">>

ProdRow(i, c, m, v, pr) ==
    [x \in {"id", "nombre", "categoria_id", "marca_id", "volumen", "precio"} |->
        CASE x = "id" -> Num(i)
          [] x = "nombre" -> Str(<<"p", " ">>)
          [] x = "categoria_id" -> c
          [] x = "marca_id" -> m
          [] x = "volumen" -> v
          [] x = "precio" -> pr]

\* the product tables of up to n rows, the i-th row with id i
ProdTables(cats, marcas, vols, precios, n) ==
    {[cols |-> ProdCols,
      rows |-> [i \in 1..Len(f) |-> ProdRow(i, f[i][1], f[i][2], f[i][3], f[i][4])]] :
        f \in SeqsUpTo(cats \X marcas \X vols \X precios, n)}

\* the table with its first row repeated at the end, if it has room for it
WithRepeat(t, n) ==
    IF t.rows # <<>> /\ Len(t.rows) < n
    THEN [cols |-> t.cols, rows |-> Append(t.rows, t.rows[1])]
    ELSE t

\* prices in eighths; 0 stands for an unpriced product
PrecioTables ==
    ProdTables({NaN, Num(1), Num(2)}, {NaN}, {NaN, Num(5), Num(6)},
               {NaN, Num(0), Num(8), Num(24), Num(0 - 8)}, MaxProdRows)

KeyTables ==
    ProdTables({NaN, Num(1), Str(<<"x">>)}, {NaN, Num(1), Num(2)}, {NaN, Num(0), Num(5)},
               {Num(8)}, MaxProdRows)

InitProducto ==
    /\ pc = "marca_done"
    /\ \/ /\ producto_raw \in PrecioTables \cup {WithRepeat(t, MaxProdRows) : t \in PrecioTables}
          /\ other_brand_id = 3 /\ other_cat_id = 3
       \/ /\ producto_raw \in KeyTables \cup {WithRepeat(t, MaxProdRows) : t \in KeyTables}
          /\ \E ids \in {<<3, 3>>, <<1, 2>>} : other_brand_id = ids[1] /\ other_cat_id = ids[2]
    /\ producto = producto_raw
    /\ categoria_raw = NoTable /\ marca_raw = NoTable
    /\ categoria = NoTable /\ marca = NoTable
    /\ IdleCast /\ IdleParse /\ IdleDim2 /\ IdleEnrich /\ IdleEvents /\ IdleJoin

\* producto = prepare_producto(producto, other_brand_id, other_cat_id)
PrepareProducto ==
    /\ pc = "marca_done"
    /\ producto' = prepare_producto(producto, other_brand_id, other_cat_id)
    /\ pc' = "producto_done"
    /\ UNCHANGED <<producto_raw, castVars, parseVars, dimVars, dim2Vars, enrichVars, eventVars, joinVars>>

NextProducto == PrepareProducto

SpecProducto == InitProducto /\ [][NextProducto]_vars

\* a raw product row that prepare_producto keeps: not one with a missing
\* categoria_id and a volumen of 0 or missing
Survives(r) ==
    ~(isna(to_numeric_coerce(r["categoria_id"]))
        /\ to_numeric_coerce(r["volumen"]) \in {NaN, Num(0)})

RawPrecio(r) == to_numeric_coerce(r["precio"])

\* C2 as stated: for every input product table, every output row's precio is
\* neither missing nor zero.
C2_AsStated ==
    pc = "producto_done" =>
        \A i \in 1..Len(producto.rows) :
            notna(producto.rows[i]["precio"]) /\ producto.rows[i]["precio"] # Num(0)

\* C2 amended: when no price of the input is negative, every output row's
\* precio is positive if some kept row has a positive price, and every output
\* row's precio is missing if none has.
C2_Precio ==
    (/\ pc = "producto_done"
     /\ \A i \in 1..Len(producto_raw.rows) :
            isna(RawPrecio(producto_raw.rows[i])) \/ RawPrecio(producto_raw.rows[i]).n >= 0)
        => IF \E i \in 1..Len(producto_raw.rows) :
                 /\ Survives(producto_raw.rows[i])
                 /\ notna(RawPrecio(producto_raw.rows[i]))
                 /\ RawPrecio(producto_raw.rows[i]).n > 0
           THEN \A j \in 1..Len(producto.rows) :
                    notna(producto.rows[j]["precio"]) /\ producto.rows[j]["precio"].n > 0
           ELSE \A j \in 1..Len(producto.rows) : isna(producto.rows[j]["precio"])

\* three rows were kept, one priced, one unpriced (0) and one without price and
\* without volumen, and all three came out with the one price there is
C2_Witness ==
    /\ pc = "producto_done"
    /\ Len(producto_raw.rows) = 3
    /\ Len(producto.rows) = 3
    /\ \E i, j, k \in 1..3 :
          /\ producto_raw.rows[i]["precio"] = Num(8)
          /\ producto_raw.rows[j]["precio"] = Num(0)
          /\ producto_raw.rows[k]["precio"] = NaN /\ producto_raw.rows[k]["volumen"] = NaN
    /\ \A j \in 1..3 : producto.rows[j]["precio"] = Num(8)

BothMissing(r) ==
    isna(to_numeric_coerce(r["marca_id"])) /\ isna(to_numeric_coerce(r["categoria_id"]))

\* the output rows that come from raw row r
RowsFrom(r) == {j \in 1..Len(producto.rows) : producto.rows[j]["id"] = r["id"]}

\* C7: every kept row whose raw marca_id and categoria_id are both missing
\* ends with the brand sentinel and the category sentinel, whatever the
\* categoria_id of the rows that share its volumen.
C7_BothMissing ==
    pc = "producto_done" =>
        \A i \in 1..Len(producto_raw.rows) :
            (BothMissing(producto_raw.rows[i]) /\ Survives(producto_raw.rows[i]))
            => /\ RowsFrom(producto_raw.rows[i]) # {}
               /\ \A j \in RowsFrom(producto_raw.rows[i]) :
                     /\ producto.rows[j]["marca_id"] = Num(other_brand_id)
                     /\ producto.rows[j]["categoria_id"] = Num(other_cat_id)

\* a row missing both keys was kept beside two rows of its volumen and of the
\* sentinel brand whose categoria_id is not the sentinel, and got both sentinels
C7_Witness ==
    /\ pc = "producto_done"
    /\ Len(producto_raw.rows) = 3
    /\ \E i, j, k \in 1..3 :
          /\ i # j /\ j # k /\ i # k
          /\ BothMissing(producto_raw.rows[i]) /\ Survives(producto_raw.rows[i])
          /\ \A q \in {j, k} :
                /\ producto_raw.rows[q]["volumen"] = producto_raw.rows[i]["volumen"]
                /\ producto_raw.rows[q]["marca_id"] = Num(other_brand_id)
                /\ producto_raw.rows[q]["categoria_id"].k = "num"
                /\ producto_raw.rows[q]["categoria_id"] # Num(other_cat_id)
          /\ \A q \in RowsFrom(producto_raw.rows[i]) :
                /\ producto.rows[q]["marca_id"] = Num(other_brand_id)
                /\ producto.rows[q]["categoria_id"] = Num(other_cat_id)

-----------------------------------------------------------------------------
(* pd.merge *)

left_only == Str(<<"l", "e", "f", "t", "_", "o", "n", "l", "y">>)
right_only == Str(<<"r", "i", "g", "h", "t", "_", "o", "n", "l", "y">>)
both == Str(<<"b", "o", "t", "h">>)

SeqSet(xs) == {xs[i] : i \in 1..Len(xs)}

RECURSIVE Flatten(_)
Flatten(xss) == IF xss = <<>> THEN <<>> ELSE Head(xss) \o Flatten(Tail(xss))

\* the columns the two sides share and pandas renames with _x and _y: every
\* shared name, but the keys of a merge on= the same names
Clash(l, r, lk, rk) ==
    (ColSet(l) \cap ColSet(r)) \ (IF lk = rk THEN SeqSet(lk) ELSE {})

Suffixed(c, clash, sfx) == IF c \in clash THEN c \o sfx ELSE c

\* the right-hand columns of the result: all of them, but the keys of a merge
\* on= the same names
RightCols(r, lk, rk) == SelectSeq(r.cols, LAMBDA c : lk # rk \/ c \notin SeqSet(rk))

merge_cols(l, r, lk, rk, indicator) ==
    [i \in 1..Len(l.cols) |-> Suffixed(l.cols[i], Clash(l, r, lk, rk), "_x")]
    \o [i \in 1..Len(RightCols(r, lk, rk)) |->
            Suffixed(RightCols(r, lk, rk)[i], Clash(l, r, lk, rk), "_y")]
    \o (IF indicator THEN <<"_merge">> ELSE <<>>)

KeysMatch(x, y, lk, rk) == \A i \in 1..Len(lk) : y[rk[i]] = x[lk[i]]

\* the row of the result for row x of the left and row y of the right; side
\* tells which of them there is, names are the columns of the result and clash
\* the renamed ones
merge_row(x, y, side, names, clash, lk, rk) ==
    [n \in names |->
        IF n = "_merge" THEN side
        ELSE IF \E c \in DOMAIN x : Suffixed(c, clash, "_x") = n
        THEN IF side # right_only
             THEN x[CHOOSE c \in DOMAIN x : Suffixed(c, clash, "_x") = n]
             ELSE IF lk = rk /\ n \in SeqSet(lk) THEN y[n] ELSE NaN
        ELSE IF side # left_only
             THEN y[CHOOSE c \in DOMAIN y : Suffixed(c, clash, "_y") = n]
             ELSE NaN]

\* the rows a left row gives: one per matching right row, in the right's
\* order; one with the right's columns missing when there is none and the
\* merge keeps unmatched left rows
left_rows(x, r, names, clash, lk, rk, how) ==
    IF \E i \in 1..Len(r.rows) : KeysMatch(x, r.rows[i], lk, rk)
    THEN SeriesMap(LAMBDA y : merge_row(x, y, both, names, clash, lk, rk),
                   SelectSeq(r.rows, LAMBDA y : KeysMatch(x, y, lk, rk)))
    ELSE IF how = "inner" THEN <<>>
    ELSE <<merge_row(x, [c \in ColSet(r) |-> NaN], left_only, names, clash, lk, rk)>>

\* the rows of the right that match no left row, for an outer merge
right_rows(l, r, names, clash, lk, rk, how) ==
    IF how # "outer" THEN <<>>
    ELSE SeriesMap(LAMBDA y : merge_row([c \in ColSet(l) |-> NaN], y, right_only,
                                        names, clash, lk, rk),
                   SelectSeq(r.rows, LAMBDA y : \A i \in 1..Len(l.rows) :
                                                    ~KeysMatch(l.rows[i], y, lk, rk)))

\* the order of two keys: numbers increasing, missing last
CellLess(a, b) == notna(a) /\ (isna(b) \/ a.n < b.n)

RowLess(x, y, keys) ==
    \E i \in 1..Len(keys) :
        /\ CellLess(x[keys[i]], y[keys[i]])
        /\ \A j \in 1..(i - 1) : x[keys[j]] = y[keys[j]]

RECURSIVE InsertRow(_, _, _)
InsertRow(sorted, x, keys) ==
    IF sorted = <<>> THEN <<x>>
    ELSE IF RowLess(x, Head(sorted), keys) THEN <<x>> \o sorted
    ELSE <<Head(sorted)>> \o InsertRow(Tail(sorted), x, keys)

\* a stable sort of the rows by their keys
RECURSIVE SortRows(_, _)
SortRows(rows, keys) ==
    IF rows = <<>> THEN <<>>
    ELSE InsertRow(SortRows(SubSeq(rows, 1, Len(rows) - 1), keys), rows[Len(rows)], keys)

\* pd.merge(l, r, left_on=lk, right_on=rk, how=how, indicator=indicator); an
\* outer merge sorts its rows by the keys
merge(l, r, lk, rk, how, indicator) ==
    Only({ [cols |-> cs,
            rows |-> Only({ IF how = "outer" THEN SortRows(rs, lk) ELSE rs :
                            rs \in { Flatten([i \in 1..Len(l.rows) |->
                                         left_rows(l.rows[i], r, SeqSet(cs), clash, lk, rk, how)])
                                     \o right_rows(l, r, SeqSet(cs), clash, lk, rk, how) } })] :
           cs \in {merge_cols(l, r, lk, rk, indicator)}, clash \in {Clash(l, r, lk, rk)} })

\* DataFrame.drop(columns=cs)
drop_columns(t, cs) ==
    [cols |-> SelectSeq(t.cols, LAMBDA c : c \notin cs),
     rows |-> SeriesMap(LAMBDA x : [c \in DOMAIN x \ cs |-> x[c]], t.rows)]

\* DataFrame.rename(columns={old: new})
rename_column(t, old, new) ==
    [cols |-> SeriesMap(LAMBDA c : IF c = old THEN new ELSE c, t.cols),
     rows |-> SeriesMap(LAMBDA x : [c \in (DOMAIN x \ {old}) \cup {new} |->
                                        IF c = new THEN x[old] ELSE x[c]], t.rows)]

\* DataFrame[cs]
select_columns(t, cs) ==
    [cols |-> cs,
     rows |-> SeriesMap(LAMBDA x : [c \in SeqSet(cs) |-> x[c]], t.rows)]

-----------------------------------------------------------------------------
(* enrich_producto_with_marca_categoria *)

enrich_how(how, p, m, c) ==
    rename_column(
        drop_columns(
            merge(drop_columns(merge(p, m, <<"marca_id">>, <<"id">>, how, TRUE),
                               {"_merge", "id_y", "marca_id"}),
                  c, <<"categoria_id">>, <<"id">>, how, TRUE),
            {"_merge", "id", "categoria_id"}),
        "id_x", "id")

\* a mutant's answer: inner merges
enrich_producto_with_marca_categoria_Inner(p, m, c) == enrich_how("inner", p, m, c)

enrich_producto_with_marca_categoria(p, m, c) == enrich_how("left", p, m, c)

MaxPipeRows == 2

PipeLabels == {Str(<<"a">>), Str(OtherLabel)}

PipeProducts ==
    ProdTables({NaN, Num(1), Num(7)}, {NaN, Num(1), Num(7)}, {Num(5)}, {Num(8)}, MaxPipeRows)

\* run_pipeline after the five tables are loaded (the tables of the events and
\* the clients are left out)
InitPipeline ==
    /\ pc = "load"
    /\ categoria_raw \in DimTable("categoria", {NaN, Num(1), Num(2)}, PipeLabels, MaxPipeRows)
    /\ marca_raw \in DimTable("marca", {NaN, Num(1)}, PipeLabels, MaxPipeRows)
    /\ producto_raw \in PipeProducts
    /\ categoria = categoria_raw
    /\ marca = marca_raw
    /\ producto = producto_raw
    /\ other_cat_id = 0 /\ other_brand_id = 0
    /\ IdleCast /\ IdleParse /\ IdleDim2 /\ IdleEnrich /\ IdleEvents /\ IdleJoin

\* producto_enriq = enrich_producto_with_marca_categoria(producto, marca, categoria)
Enrich ==
    /\ pc = "producto_done"
    /\ producto_enriq' = enrich_producto_with_marca_categoria(producto, marca, categoria)
    /\ pc' = "enrich_done"
    /\ UNCHANGED <<castVars, parseVars, dimVars, dim2Vars, prodVars, eventVars, joinVars>>

NextPipeline == PrepareCategoria \/ PrepareMarca \/ PrepareProducto \/ Enrich

SpecPipeline == InitPipeline /\ [][NextPipeline]_vars

IdsOf(t) == {t.rows[i]["id"] : i \in 1..Len(t.rows)}

ProductoReturned == pc \in {"producto_done", "enrich_done"}

\* the numbers among the raw keys of column c of the product table
RawKeys(c) ==
    {to_numeric_coerce(producto_raw.rows[i][c]) : i \in 1..Len(producto_raw.rows)} \ {NaN}

\* C3 as stated: with the sentinel ids of the dimension preparers, every output
\* product row's categoria_id is the id of a cleaned category row and its
\* marca_id the id of a cleaned brand row.
C3_AsStated ==
    ProductoReturned =>
        \A i \in 1..Len(producto.rows) :
            /\ producto.rows[i]["categoria_id"] \in IdsOf(categoria)
            /\ producto.rows[i]["marca_id"] \in IdsOf(marca)

\* C3 amended: with the sentinel ids of the dimension preparers, every output
\* product row's categoria_id is the category sentinel or a number of the raw
\* categoria_id column, and its marca_id is the brand sentinel or the row's own
\* raw number; the sentinels are ids of the cleaned tables, so every output
\* key is the id of a cleaned row when every number of the raw key columns is.
C3_ForeignKeys ==
    ProductoReturned =>
        /\ Num(other_cat_id) \in IdsOf(categoria)
        /\ Num(other_brand_id) \in IdsOf(marca)
        /\ \A i \in 1..Len(producto.rows) :
              /\ producto.rows[i]["categoria_id"] \in RawKeys("categoria_id") \cup {Num(other_cat_id)}
              /\ producto.rows[i]["marca_id"] \in RawKeys("marca_id") \cup {Num(other_brand_id)}
        /\ (RawKeys("categoria_id") \subseteq IdsOf(categoria)
                /\ RawKeys("marca_id") \subseteq IdsOf(marca))
           => \A i \in 1..Len(producto.rows) :
                 /\ producto.rows[i]["categoria_id"] \in IdsOf(categoria)
                 /\ producto.rows[i]["marca_id"] \in IdsOf(marca)

\* two products were prepared, one with the keys of cleaned rows that are not
\* the OTHER rows, one without marca_id that got the brand sentinel, and both
\* reference cleaned rows
C3_Witness ==
    /\ pc = "producto_done"
    /\ Len(producto.rows) = 2
    /\ other_cat_id # 1 /\ other_brand_id # 1
    /\ producto_raw.rows[1]["categoria_id"] = Num(1) /\ producto_raw.rows[1]["marca_id"] = Num(1)
    /\ producto_raw.rows[2]["categoria_id"] = Num(1) /\ producto_raw.rows[2]["marca_id"] = NaN
    /\ producto.rows[2]["marca_id"] = Num(other_brand_id)
    /\ \A i \in 1..2 :
          /\ producto.rows[i]["categoria_id"] \in IdsOf(categoria)
          /\ producto.rows[i]["marca_id"] \in IdsOf(marca)

CountRows(t, id) == Cardinality({i \in 1..Len(t.rows) : t.rows[i]["id"] = id})

Max1(n) == IF n = 0 THEN 1 ELSE n

RECURSIVE EnrichedRows(_)
EnrichedRows(n) ==
    IF n = 0 THEN 0
    ELSE EnrichedRows(n - 1)
         + Max1(CountRows(marca, producto.rows[n]["marca_id"]))
           * Max1(CountRows(categoria, producto.rows[n]["categoria_id"]))

UniqueIds(t) == \A i, j \in 1..Len(t.rows) : i # j => t.rows[i]["id"] # t.rows[j]["id"]

\* C5 as stated: the enriched product table has as many rows as the cleaned
\* product table, for every cleaned brand and category table.
C5_AsStated ==
    pc = "enrich_done" => Len(producto_enriq.rows) = Len(producto.rows)

\* C5 amended: each cleaned product row gives one enriched row per pair of a
\* cleaned brand row with its marca_id and a cleaned category row with its
\* categoria_id, counting a side without such a row as one; hence one enriched
\* row per product row when no two cleaned brand rows share an id and no two
\* cleaned category rows share an id.
C5_RowCount ==
    pc = "enrich_done" =>
        /\ Len(producto_enriq.rows) = EnrichedRows(Len(producto.rows))
        /\ Len(producto_enriq.rows) >= Len(producto.rows)
        /\ (UniqueIds(marca) /\ UniqueIds(categoria))
           => /\ Len(producto_enriq.rows) = Len(producto.rows)
              /\ \A i \in 1..Len(producto.rows) :
                    producto_enriq.rows[i]["id"] = producto.rows[i]["id"]

\* two products were enriched from cleaned tables without a repeated id, one
\* of them with a categoria_id no cleaned category row has, into two rows
C5_Witness ==
    /\ pc = "enrich_done"
    /\ UniqueIds(marca) /\ UniqueIds(categoria)
    /\ Len(categoria.rows) = 2
    /\ Len(producto.rows) = 2
    /\ producto.rows[1]["categoria_id"] = Num(7)
    /\ producto.rows[2]["categoria_id"] = Num(1)
    /\ Len(producto_enriq.rows) = 2
    /\ producto_enriq.rows[1]["categoria"] = NaN
    /\ producto_enriq.rows[2]["categoria"] = Str(<<"A">>)

-----------------------------------------------------------------------------
(* merge_events_with_entities *)

\* a mutant's answer: the events are matched to the products by visitorid
events_producto_ByVisitor(ev, pe) ==
    rename_column(drop_columns(merge(ev, pe, <<"visitorid">>, <<"id">>, "left", TRUE), {"id"}),
                  "_merge", "event+producto")

\* events1: the events with their product
events_producto(ev, pe) ==
    rename_column(drop_columns(merge(ev, pe, <<"itemid">>, <<"id">>, "left", TRUE), {"id"}),
                  "_merge", "event+producto")

\* events2: the events with their client
events_cliente(ev, cl) ==
    rename_column(drop_columns(merge(ev, cl, <<"visitorid">>, <<"id">>, "left", TRUE), {"id"}),
                  "_merge", "event+cliente")

cols_to_use(e1, e2) ==
    SelectSeq(e2.cols, LAMBDA c : c \notin ColSet(e1) \/ c \in {"visitorid", "itemid"})

\* <<events1, events2, eventos3>>
merge_events_with_entities(ev, pe, cl) ==
    Only({ <<e[1], e[2],
             merge(e[1], select_columns(e[2], cols_to_use(e[1], e[2])),
                   <<"visitorid", "itemid">>, <<"visitorid", "itemid">>, "outer", FALSE)>> :
           e \in {<<events_producto(ev, pe), events_cliente(ev, cl)>>} })

MaxJoinRows == 2

Ts(ms) == [k |-> "ts", n |-> ms, s |-> <<>>]

EventCols == <<"visitorid", "itemid", "event", "fecha">>
EnriqCols == <<"id", "nombre", "volumen", "precio", "marca", "categoria">>
ClienteCols == <<"id", "nombre", "nacimiento", "genero", "empresa", "idioma", "ciudad", "edad">>

\* the tables with the columns cols and up to n rows, each row one of the
\* functions of rows
Tables(cols, rows, n) == {[cols |-> cols, rows |-> rs] : rs \in SeqsUpTo(rows, n)}

\* cleaned events: a view of a product by a visitor
JoinEvents ==
    Tables(EventCols,
           {[c \in SeqSet(EventCols) |->
                CASE c = "visitorid" -> Num(v)
                  [] c = "itemid" -> i
                  [] c = "event" -> Str(<<"V", "I", "E", "W">>)
                  [] c = "fecha" -> Ts(1000)] : v \in {1, 2}, i \in {Num(1), Num(2), NaN}},
           MaxJoinRows)

\* enriched products, with and without the label of a brand
JoinProducts ==
    Tables(EnriqCols,
           {[c \in SeqSet(EnriqCols) |->
                CASE c = "id" -> Num(i)
                  [] c = "nombre" -> Str(<<"P">>)
                  [] c = "volumen" -> Num(5)
                  [] c = "precio" -> Num(8)
                  [] c = "marca" -> m
                  [] c = "categoria" -> Str(OtherLabel)] : i \in {1, 2}, m \in {NaN, Str(<<"A">>)}},
           MaxJoinRows)

\* cleaned clients; 0 is the id of a client without one
JoinClientes ==
    Tables(ClienteCols,
           {[c \in SeqSet(ClienteCols) |->
                CASE c = "id" -> Num(i)
                  [] c = "nombre" -> Str(<<"N">>)
                  [] c = "nacimiento" -> NaN
                  [] c = "genero" -> Str(<<"F", "E", "M", "A", "L", "E">>)
                  [] c = "empresa" -> Str(<<"E">>)
                  [] c = "idioma" -> Str(<<"E", "S">>)
                  [] c = "ciudad" -> Str(<<"C">>)
                  [] c = "edad" -> NaN] : i \in {0, 1, 2}},
           MaxJoinRows)

\* run_pipeline after the clean-up and the enrichment
InitJoin ==
    /\ pc = "enrich_done"
    /\ events \in JoinEvents
    /\ producto_enriq \in JoinProducts
    /\ cliente \in JoinClientes
    /\ events_raw = NoTable
    /\ events1 = NoTable /\ events2 = NoTable /\ eventos3 = NoTable
    /\ IdleCast /\ IdleParse /\ IdleDim /\ IdleDim2 /\ IdleProd

\* events1, events2, eventos3 = merge_events_with_entities(events, producto_enriq, cliente)
MergeEvents ==
    /\ pc = "enrich_done"
    /\ \E r \in {merge_events_with_entities(events, producto_enriq, cliente)} :
          /\ events1' = r[1]
          /\ events2' = r[2]
          /\ eventos3' = r[3]
    /\ pc' = "merge_done"
    /\ UNCHANGED <<cliente, castVars, parseVars, dimVars, dim2Vars, prodVars, enrichVars, eventVars>>

NextJoin == MergeEvents

SpecJoin == InitJoin /\ [][NextJoin]_vars

ProductCols == {"nombre", "volumen", "precio", "marca", "categoria"}

\* the rows of t with the visitorid and the itemid of the event e
RowsOfKey(t, e) ==
    {i \in 1..Len(t.rows) :
        t.rows[i]["visitorid"] = e["visitorid"] /\ t.rows[i]["itemid"] = e["itemid"]}

Unmatched(e) == e["itemid"] \notin IdsOf(producto_enriq)

\* C6: every event whose itemid is the id of no enriched product is in the
\* Event-Product view, flagged left_only there, and every row of the Unified
\* Fact view with its visitorid and itemid has every product column missing.
C6_LeftOnly ==
    pc = "merge_done" =>
        \A k \in 1..Len(events.rows) :
            Unmatched(events.rows[k]) =>
                /\ RowsOfKey(events1, events.rows[k]) # {}
                /\ \A i \in RowsOfKey(events1, events.rows[k]) :
                      events1.rows[i]["event+producto"] = left_only
                /\ RowsOfKey(eventos3, events.rows[k]) # {}
                /\ \A i \in RowsOfKey(eventos3, events.rows[k]) :
                      \A c \in ProductCols : isna(eventos3.rows[i][c])

\* a visitor who is a client saw a product that is not in the table and one
\* that is: the views have a row for each, the first without product columns
C6_Witness ==
    /\ pc = "merge_done"
    /\ Len(events.rows) = 2
    /\ Unmatched(events.rows[1]) /\ ~Unmatched(events.rows[2])
    /\ events.rows[1]["itemid"] = Num(2)
    /\ events.rows[1]["visitorid"] = events.rows[2]["visitorid"]
    /\ events.rows[1]["visitorid"] \in IdsOf(cliente)
    /\ \E i \in 1..Len(eventos3.rows) :
          /\ eventos3.rows[i]["itemid"] = Num(2)
          /\ eventos3.rows[i]["event+producto"] = left_only
          /\ eventos3.rows[i]["event+cliente"] = both
          /\ \A c \in ProductCols : isna(eventos3.rows[i][c])
    /\ \E i \in 1..Len(eventos3.rows) :
          /\ eventos3.rows[i]["event+producto"] = both
          /\ eventos3.rows[i]["nombre"] = Str(<<"P">>)

-----------------------------------------------------------------------------
(* prepare_events *)

\* pd.to_datetime(x, unit="ms", errors="coerce") of one cell: a number of
\* milliseconds is that instant, a missing value and a text that is no number
\* are NaT
to_datetime_ms(c) == IF c.k = "num" THEN Ts(c.n) ELSE NaN

\* DataFrame.drop(columns=cs, errors="ignore")
drop_columns_ignore(t, cs) == drop_columns(t, cs \cap ColSet(t))

\* t with the new column c of cells ser at its end
AddCol(t, c, ser) ==
    [cols |-> Append(t.cols, c),
     rows |-> [i \in 1..Len(t.rows) |->
                 [x \in DOMAIN t.rows[i] \cup {c} |->
                     IF x = c THEN ser[i] ELSE t.rows[i][x]]]]

with_fecha(t) == AddCol(t, "fecha", SeriesMap(to_datetime_ms, Col(t, "timestamp")))

\* a mutant's answer: the duplicates are dropped once both columns are
prepare_events_DedupLast(t) ==
    MapCol(
        Only({ drop_duplicates(d, AllCols(d)) :
               d \in { drop_columns_ignore(drop_columns_ignore(with_fecha(t), {"timestamp"}),
                                           {"transactionid"}) } }),
        "event", LAMBDA c : str_upper(astype_str(c)))

prepare_events(t) ==
    MapCol(
        drop_columns_ignore(
            Only({ drop_duplicates(d, AllCols(d)) :
                   d \in { drop_columns_ignore(with_fecha(t), {"timestamp"}) } }),
            {"transactionid"}),
        "event", LAMBDA c : str_upper(astype_str(c)))

MaxEventRows == 3

RawEventRows(with_txn) ==
    {[c \in {"timestamp", "visitorid", "event", "itemid"}
            \cup (IF with_txn THEN {"transactionid"} ELSE {}) |->
        CASE c = "timestamp" -> ts
          [] c = "visitorid" -> Num(1)
          [] c = "event" -> ev
          [] c = "itemid" -> Num(it)
          [] c = "transactionid" -> tx] :
        ts \in {Num(1000), Str(<<"x">>), NaN},
        ev \in {Str(<<"v", "i", "e", "w">>), Str(<<"V", "I", "E", "W">>)},
        it \in {1, 2},
        tx \in IF with_txn THEN {NaN, Num(1)} ELSE {NaN}}

\* run_pipeline after the table of the events is loaded, with and without a
\* transactionid column
InitEvents ==
    /\ pc = "load"
    /\ \/ events_raw \in Tables(<<"timestamp", "visitorid", "event", "itemid", "transactionid">>,
                               RawEventRows(TRUE), MaxEventRows)
       \/ events_raw \in Tables(<<"timestamp", "visitorid", "event", "itemid">>,
                               RawEventRows(FALSE), MaxEventRows)
    /\ events = events_raw
    /\ IdleCast /\ IdleParse /\ IdleDim /\ IdleDim2 /\ IdleProd /\ IdleEnrich /\ IdleJoin

\* events = prepare_events(events)
PrepareEvents ==
    /\ pc = "load"
    /\ events' = prepare_events(events)
    /\ pc' = "events_done"
    /\ UNCHANGED <<events_raw, castVars, parseVars, dimVars, dim2Vars, prodVars, enrichVars, joinVars>>

NextEvents == PrepareEvents

SpecEvents == InitEvents /\ [][NextEvents]_vars

NoColumn(t, c) == c \notin ColSet(t) /\ \A i \in 1..Len(t.rows) : c \notin DOMAIN t.rows[i]

\* what tells two raw events apart when the duplicates are dropped: every
\* column as given, with the instant in place of the timestamp
Told(r) ==
    [c \in (DOMAIN r \ {"timestamp"}) \cup {"fecha"} |->
        IF c = "fecha" THEN to_datetime_ms(r["timestamp"]) ELSE r[c]]

\* what is left of a raw event in the output
Shown(r) ==
    [c \in (DOMAIN r \ {"timestamp", "transactionid"}) \cup {"fecha"} |->
        CASE c = "fecha" -> to_datetime_ms(r["timestamp"])
          [] c = "event" -> Str(Upper(r["event"].s))
          [] OTHER -> r[c]]

\* C10 as stated: the output has neither the timestamp nor the transactionid
\* column, and no two identical rows.
C10_AsStated ==
    pc = "events_done" =>
        /\ NoColumn(events, "timestamp") /\ NoColumn(events, "transactionid")
        /\ NoRepeatedRow(events)

\* C10 amended: the output has neither the timestamp nor the transactionid
\* column; the exact duplicates are dropped once the timestamp column is, and
\* before the transactionid column is dropped and event is uppercased: the
\* output has one row per distinct raw event, told apart by visitorid,
\* itemid, event as given, transactionid and instant, so that no two output
\* rows are identical only when no two distinct raw events differ in nothing
\* but transactionid and the letter case of event.
C10_Events ==
    pc = "events_done" =>
        /\ NoColumn(events, "timestamp") /\ NoColumn(events, "transactionid")
        /\ Len(events.rows) = Cardinality({Told(events_raw.rows[i]) : i \in 1..Len(events_raw.rows)})
        /\ RowSet(events) = {Shown(events_raw.rows[i]) : i \in 1..Len(events_raw.rows)}
        /\ NoRepeatedRow(events)
           <=> \A i, j \in 1..Len(events_raw.rows) :
                   Shown(events_raw.rows[i]) = Shown(events_raw.rows[j])
                   => Told(events_raw.rows[i]) = Told(events_raw.rows[j])

\* of three raw events, two the same and one with another transactionid, two
\* rows were kept, and they are identical
C10_Witness ==
    /\ pc = "events_done"
    /\ Len(events_raw.rows) = 3
    /\ events_raw.rows[1] = events_raw.rows[2]
    /\ events_raw.rows[3] = [events_raw.rows[1] EXCEPT !["transactionid"] = Num(1)]
    /\ events_raw.rows[1]["transactionid"] = NaN
    /\ Len(events.rows) = 2
    /\ events.rows[1] = events.rows[2]

=============================================================================
